---- MODULE Spec2Model ----
(***************************************************************************)
(* The jenca authentication service, authentication/authentication.py:     *)
(* signup, login, logout, status and delete-user handlers in front of an   *)
(* HTTP storage service, with Flask-Login session and remember-me cookies. *)
(*                                                                         *)
(* Strings are sequences of characters, so that concatenation, hashing and *)
(* token derivation are computed and not assumed.  The Python value None   *)
(* is the empty string for an optional string and NoUser for an optional   *)
(* User.  Each client holds its own cookie jar (the signed Flask session   *)
(* cookie and the remember_token cookie) and has at most one request in    *)
(* flight; a handler that makes two storage calls is two steps, so that    *)
(* requests of different clients interleave between the calls.             *)
(*                                                                         *)
(* Specifications: Spec (well-formed requests, storage answering),         *)
(* SpecUnreliable (storage calls may fail), SpecAnyRequest (requests the   *)
(* decorators turn away as well), SpecRemember (browser sessions end and   *)
(* the remember_token cookie is what is left), SpecReplay (clients send    *)
(* again the tokens they were issued), SpecSilent (storage calls may stay  *)
(* without answer) and SpecTokens (get_auth_token on its own).             *)
(***************************************************************************)
EXTENDS Naturals, Sequences, FiniteSets, TLC

\* ------------------------------------------------------------------ bounds
MaxSalt == 2
MaxRequests == 5
MaxUnreliableRequests == 3
MaxAnyRequests == 3
MaxTokenLen == 2

Clients == {1, 2}
Emails == {<<"a">>, <<"b">>}
Passwords == {<<"p">>, <<"q">>}
SaltChars == <<"s", "t", "u", "v">>
Salts == {<<SaltChars[i]>> : i \in 1..MaxSalt}
ContentTypes == {"application/json", "text/html"}

\* ------------------------------------------------- requests.codes (status)
OK == 200
CREATED == 201
BAD_REQUEST == 400
UNAUTHORIZED == 401
NOT_FOUND == 404
CONFLICT == 409
UNSUPPORTED_MEDIA_TYPE == 415
INTERNAL_SERVER_ERROR == 500

\* ------------------------------------------------------------------- User
User(email, password_hash) == [email |-> email, password_hash |-> password_hash]

\* Python's None where a User is expected.
NoUser == User(<<>>, <<>>)

SECRET_KEY == "secret"

\* A payload that is the bare concatenation of the arguments.
RECURSIVE JoinPlain(_)
JoinPlain(args) ==
    IF Len(args) = 0 THEN <<>> ELSE args[1] \o JoinPlain(Tail(args))

\* flask.ext.login.make_secure_token(*args): HMAC-SHA512 under the secret key
\* of the arguments joined by NUL bytes.  The MAC is a tag over its payload.
RECURSIVE JoinNul(_)
JoinNul(args) ==
    IF Len(args) = 0 THEN <<>>
    ELSE IF Len(args) = 1 THEN args[1]
    ELSE args[1] \o <<"\\0">> \o JoinNul(Tail(args))

make_secure_token(args) == <<"hmac", SECRET_KEY>> \o JoinNul(args)

\* A token that leaves the password hash out.
TokenOfEmail(user) == make_secure_token(<<user.email>>)

\* User.get_auth_token
get_auth_token(user) == make_secure_token(<<user.email, user.password_hash>>)

get_id(user) == user.email

\* ----------------------------------------------------------------- bcrypt
\* A bcrypt hash is the scheme prefix, the salt and the digest of (salt,
\* password); the digest is one-way but injective, kept as the password
\* behind the prefix and salt.
hashpw(password, salt) == <<"$2b$">> \o salt \o password

\* A signup that stored the password as it came would compute this.
GeneratePlaintext(password, salt) == password

\* bcrypt.generate_password_hash(password) with the salt it drew.
generate_password_hash(password, salt) == hashpw(password, salt)

\* A check that accepts every password.
CheckAlwaysTrue(pw_hash, password) == TRUE

\* bcrypt.check_password_hash(pw_hash, password): hash the candidate with
\* the salt embedded in pw_hash and compare.
check_password_hash(pw_hash, password) ==
    /\ Len(pw_hash) >= 2
    /\ pw_hash[1] = "$2b$"
    /\ hashpw(password, <<pw_hash[2]>>) = pw_hash

\* ------------------------------------------------- the storage service
\* (spec section 4.3: getUserByEmail, listUsers, createUser, deleteUser)
HasUser(us, email) == \E i \in 1..Len(us) : us[i].email = email

UserOf(us, email) ==
    IF HasUser(us, email)
    THEN us[CHOOSE i \in 1..Len(us) :
                /\ us[i].email = email
                /\ \A j \in 1..(i - 1) : us[j].email # email]
    ELSE NoUser

getUserByEmail(us, email) ==
    IF HasUser(us, email)
    THEN [status |-> OK, user |-> UserOf(us, email)]
    ELSE [status |-> NOT_FOUND, user |-> NoUser]

listUsers(us) == [status |-> OK, list |-> us]

\* A store that replaces the record of an email it holds.
CreateReplaces(us, user) ==
    [status |-> CREATED,
     users |-> Append(SelectSeq(us, LAMBDA u : u.email # user.email), user)]

\* A store that appends every record it is sent.
CreateAlways(us, user) == [status |-> CREATED, users |-> Append(us, user)]

createUser(us, user) ==
    IF HasUser(us, user.email)
    THEN [status |-> CONFLICT, users |-> us]
    ELSE [status |-> CREATED, users |-> Append(us, user)]

NotEmail(email, u) == u.email # email

deleteUser(us, email) ==
    IF HasUser(us, email)
    THEN [status |-> OK,
          users |-> SelectSeq(us, LAMBDA u : NotEmail(email, u))]
    ELSE [status |-> NOT_FOUND, users |-> us]

\* How one HTTP call to the storage service ends: answered, answered with a
\* server error, or not answered at all (requests raises ConnectionError).
Reliable == {"ok"}
Unreliable == {"ok", "error", "down"}

\* ------------------------------------------------------- requests.<verb>
\* Each returns what the handler sees: whether requests raised, the status
\* code, the decoded payload, and the storage content after the call.
requests_get_user(us, email, mode) ==
    LET answer == getUserByEmail(us, email) IN
    CASE mode = "ok" ->
            [raised |-> FALSE, status |-> answer.status, user |-> answer.user]
      [] mode = "error" ->
            [raised |-> FALSE, status |-> INTERNAL_SERVER_ERROR, user |-> NoUser]
      [] OTHER ->
            [raised |-> TRUE, status |-> 0, user |-> NoUser]

requests_get_users(us, mode) ==
    CASE mode = "ok" ->
            [raised |-> FALSE, status |-> OK, list |-> listUsers(us).list]
      [] mode = "error" ->
            [raised |-> FALSE, status |-> INTERNAL_SERVER_ERROR, list |-> <<>>]
      [] OTHER ->
            [raised |-> TRUE, status |-> 0, list |-> <<>>]

requests_post(us, user, mode) ==
    LET answer == createUser(us, user) IN
    CASE mode = "ok" ->
            [raised |-> FALSE, status |-> answer.status, users |-> answer.users]
      [] mode = "error" ->
            [raised |-> FALSE, status |-> INTERNAL_SERVER_ERROR, users |-> us]
      [] OTHER ->
            [raised |-> TRUE, status |-> 0, users |-> us]

requests_delete(us, email, mode) ==
    LET answer == deleteUser(us, email) IN
    CASE mode = "ok" ->
            [raised |-> FALSE, status |-> answer.status, users |-> answer.users]
      [] mode = "error" ->
            [raised |-> FALSE, status |-> INTERNAL_SERVER_ERROR, users |-> us]
      [] OTHER ->
            [raised |-> TRUE, status |-> 0, users |-> us]

\* ------------------------------------------------------------ the loaders
\* A loader that returns a User for every id without asking storage, and
\* one that never finds a user.
LoadTrustingId(us, user_id, mode) ==
    [raised |-> FALSE, user |-> User(user_id, <<>>)]

LoadNothing(us, user_id, mode) == [raised |-> FALSE, user |-> NoUser]

\* load_user_from_id: the User when storage answers 200, None otherwise.
load_user_from_id(us, user_id, mode) ==
    LET response == requests_get_user(us, user_id, mode) IN
    IF response.raised
    THEN [raised |-> TRUE, user |-> NoUser]
    ELSE IF response.status = OK
         THEN [raised |-> FALSE,
               user |-> User(response.user.email, response.user.password_hash)]
         ELSE [raised |-> FALSE, user |-> NoUser]

\* A loop that returns the first user of the list without comparing tokens.
FirstUser(list, auth_token) ==
    IF Len(list) = 0 THEN NoUser
    ELSE User(Head(list).email, Head(list).password_hash)

\* The for loop of load_user_from_token: the first user of the list whose
\* token is the given one, None when the loop ends.
RECURSIVE first_with_token(_, _)
first_with_token(list, auth_token) ==
    IF Len(list) = 0 THEN NoUser
    ELSE LET user == User(Head(list).email, Head(list).password_hash) IN
         IF get_auth_token(user) = auth_token
         THEN user
         ELSE first_with_token(Tail(list), auth_token)

\* A token loader for which no token is any user's.
TokenLoaderFindsNobody(us, auth_token, mode) ==
    [raised |-> FALSE, user |-> NoUser]

\* load_user_from_token: json.loads of an error answer is no list of users,
\* and reading details['email'] from it raises.
load_user_from_token(us, auth_token, mode) ==
    LET response == requests_get_users(us, mode) IN
    IF response.raised \/ response.status # OK
    THEN [raised |-> TRUE, user |-> NoUser]
    ELSE [raised |-> FALSE, user |-> first_with_token(response.list, auth_token)]

\* ------------------------------------------------------------ Flask-Login
\* Flask-Login 0.3: is_authenticated is a property, token loaders exist, and
\* a session whose user the loader does not find is the anonymous user, the
\* session keeping its user_id.

\* A resolution that accepts the session's user only with the remember_token
\* of its stored password hash.
CurrentRequiringToken(us, user_id, cookie, mode) ==
    LET loaded == load_user_from_id(us, user_id, mode) IN
    IF /\ user_id # <<>> /\ ~loaded.raised /\ loaded.user # NoUser
       /\ get_auth_token(loaded.user) = cookie
    THEN [raised |-> FALSE, user |-> loaded.user, user_id |-> user_id]
    ELSE [raised |-> FALSE, user |-> NoUser, user_id |-> user_id]

\* A resolution that takes the session's user_id as the user, without the
\* user loader.
CurrentTrustingSession(us, user_id, cookie, mode) ==
    [raised |-> FALSE, user |-> User(user_id, <<>>), user_id |-> user_id]

\* current_user (LoginManager._load_user): with no user_id in the session and
\* a remember_token cookie in the request, the token loader decides and a
\* user it finds is written into the session; otherwise the user loader is
\* asked for the session's user_id.  An unknown user is the anonymous user.
current_user(us, user_id, cookie, mode) ==
    IF user_id = <<>>
    THEN IF cookie # <<>>
         THEN LET loaded == load_user_from_token(us, cookie, mode) IN
              IF loaded.raised
              THEN [raised |-> TRUE, user |-> NoUser, user_id |-> user_id]
              ELSE IF loaded.user # NoUser
                   THEN [raised |-> FALSE, user |-> loaded.user,
                         user_id |-> get_id(loaded.user)]
                   ELSE [raised |-> FALSE, user |-> NoUser, user_id |-> user_id]
         ELSE [raised |-> FALSE, user |-> NoUser, user_id |-> user_id]
    ELSE LET loaded == load_user_from_id(us, user_id, mode) IN
         [raised |-> loaded.raised, user |-> loaded.user, user_id |-> user_id]

is_authenticated(user) == user # NoUser

\* login_user(user) without remember=True: no cookie is set.
LoginNoRemember(user, cookie) ==
    [user_id |-> get_id(user), remember_token |-> cookie, set_cookie |-> "none"]

\* login_user(user, remember=True): the session takes the user's id and the
\* response sets the remember_token cookie to the user's token.
login_user(user, cookie) ==
    [user_id |-> get_id(user),
     remember_token |-> get_auth_token(user),
     set_cookie |-> "set"]

\* A logout that clears the cookie and leaves the user_id in the session.
LogoutKeepsSession(user_id, cookie) ==
    [user_id |-> user_id, remember_token |-> <<>>,
     set_cookie |-> IF cookie # <<>> THEN "clear" ELSE "none"]

\* logout_user(): the session loses its user_id, and a remember_token cookie
\* the request carried is cleared by the response.
logout_user(user_id, cookie) ==
    [user_id |-> <<>>, remember_token |-> <<>>,
     set_cookie |-> IF cookie # <<>> THEN "clear" ELSE "none"]

\* A decorator that lets every content type through.
ConsumesAnything(request) == TRUE

\* @consumes('application/json')
consumes(request) == request.ctype = "application/json"

\* A validation that requires no field.
ValidateNothing(request) == TRUE

\* @jsonschema.validate('user', ...): email and password are required.
validate(request) == request.email # <<>> /\ request.password # <<>>

\* ------------------------------------------------------------------ state
VARIABLES
    users,           \* the storage service's user records, in creation order
    session,         \* per client: user_id in the Flask session cookie
    remember_token,  \* per client: the remember_token cookie
    inflight,        \* per client: the handler's position and locals
    last,            \* the response of the latest step, with what it answered
    login_as,        \* history: the client's login still in effect
    logged_out,      \* history: the client's latest response was to a logout, 200
    requests_made,   \* number of requests sent so far
    derived,         \* history: the get_auth_token calls made on their own
    known            \* history: per client, the logins it completed

vars == <<users, session, remember_token, inflight, last, login_as,
          logged_out, requests_made, derived, known>>

\* The session state machine of the specification, read off storage:
\* Authenticated(email) is the email, Anonymous the empty string.
SessionState(us, user_id, cookie) ==
    IF user_id # <<>>
    THEN IF HasUser(us, user_id) THEN user_id ELSE <<>>
    ELSE IF \E i \in 1..Len(us) :
                make_secure_token(<<us[i].email, us[i].password_hash>>) = cookie
         THEN LET i == CHOOSE k \in 1..Len(us) :
                          make_secure_token(<<us[k].email, us[k].password_hash>>) = cookie
              IN us[i].email
         ELSE <<>>

StateOf(c) == SessionState(users, session[c], remember_token[c])

Request(ctype, email, password) ==
    [ctype |-> ctype, email |-> email, password |-> password]

NoRequest == Request("application/json", <<>>, <<>>)

\* Response bodies: jsonify(title=..., detail=...), jsonify(data) and the
\* HTML page of an aborted request.
Body(kind, email, password, authenticated) ==
    [kind |-> kind, email |-> email, password |-> password,
     is_authenticated |-> authenticated]

ErrorBody == Body("error", <<>>, <<>>, "absent")
HtmlBody == Body("html", <<>>, <<>>, "absent")

\* A handler's position and locals; found and failed are history: whether
\* storage held the email at the lookup, and whether the lookup failed.
Idle ==
    [pc |-> "idle", email |-> <<>>, password |-> <<>>, found |-> FALSE,
     failed |-> FALSE]

NoResponse ==
    [client |-> 0, op |-> "none", request |-> NoRequest, status |-> 0,
     body |-> HtmlBody, set_cookie |-> "none", token |-> <<>>,
     pre |-> <<>>, after_logout |-> FALSE, found |-> FALSE, verified |-> FALSE,
     storage |-> 0, failed |-> FALSE, changed |-> FALSE,
     user_id |-> <<>>, cookie |-> <<>>]

\* verify(plaintext, hashValue) of the specification's Password Hasher: the
\* hash is the hash of the plaintext under some salt.
Verifies(password, pw_hash) == \E salt \in Salts : hashpw(password, salt) = pw_hash

\* A response, with the facts of the moment it was decided in: the session
\* state before the request (pre), whether the client's previous response
\* was to a successful logout (after_logout), whether storage held the
\* request's email at the lookup (found) with a hash the request's password
\* verifies against (verified), what storage answered to a create or delete
\* call (storage, 0 for none), whether a storage call of this request
\* failed (failed), whether the step changed storage (changed), and the
\* session identity and remember_token the request carried (user_id, cookie).
Response(c, op, request, status, body, failed) ==
    [NoResponse EXCEPT
        !.client = c, !.op = op, !.request = request, !.status = status,
        !.body = body, !.pre = StateOf(c), !.after_logout = logged_out[c],
        !.found = HasUser(users, request.email),
        !.verified = Verifies(request.password,
                              UserOf(users, request.email).password_hash),
        !.failed = failed,
        !.user_id = session[c], !.cookie = remember_token[c]]

CanRequest(c) == inflight[c].pc = "idle" /\ requests_made < MaxRequests

Finish(c, response) ==
    /\ last' = [response EXCEPT !.changed = (users' # users)]
    /\ logged_out' = [logged_out EXCEPT
                          ![c] = response.op = "logout" /\ response.status = OK]
    /\ inflight' = [inflight EXCEPT ![c] = Idle]

\* The login history of a client: the email of its latest successful login
\* when no successful logout followed it (the empty string otherwise), and
\* whether storage has held that user ever since.
NoLogin == [email |-> <<>>, intact |-> FALSE]
LoggedIn(email) == [email |-> email, intact |-> TRUE]

Init ==
    /\ users = <<>>
    /\ session = [c \in Clients |-> <<>>]
    /\ remember_token = [c \in Clients |-> <<>>]
    /\ inflight = [c \in Clients |-> Idle]
    /\ last = NoResponse
    /\ login_as = [c \in Clients |-> NoLogin]
    /\ logged_out = [c \in Clients |-> FALSE]
    /\ requests_made = 0
    /\ derived = <<>>
    /\ known = [c \in Clients |-> {}]

\* ---------------------------------------------------------------- signup
\* POST /signup up to the storage lookup: 415, 400, 500, 409, or on to the
\* create call.
signup(c, request, mode) ==
    /\ CanRequest(c)
    /\ requests_made' = requests_made + 1
    /\ UNCHANGED <<users, session, remember_token, login_as, derived, known>>
    /\ IF ~consumes(request)
       THEN Finish(c, Response(c, "signup", request, UNSUPPORTED_MEDIA_TYPE,
                               HtmlBody, FALSE))
       ELSE IF ~validate(request)
       THEN Finish(c, Response(c, "signup", request, BAD_REQUEST, ErrorBody, FALSE))
       ELSE LET loaded == load_user_from_id(users, request.email, mode) IN
            IF loaded.raised
            THEN Finish(c, Response(c, "signup", request, INTERNAL_SERVER_ERROR,
                                    HtmlBody, TRUE))
            ELSE IF loaded.user # NoUser
            THEN Finish(c, Response(c, "signup", request, CONFLICT, ErrorBody,
                                    mode # "ok"))
            ELSE /\ inflight' = [inflight EXCEPT ![c] =
                                    [pc |-> "signup_post", email |-> request.email,
                                     password |-> request.password,
                                     found |-> HasUser(users, request.email),
                                     failed |-> mode # "ok"]]
                 /\ last' = NoResponse
                 /\ UNCHANGED logged_out

\* POST /signup from the create call on: hash the password, post the record,
\* answer 201 whatever storage said.
signup_post(c, salt, mode) ==
    /\ inflight[c].pc = "signup_post"
    /\ LET email == inflight[c].email
           password == inflight[c].password
           request == Request("application/json", email, password)
           data == User(email, generate_password_hash(password, salt))
           response == requests_post(users, data, mode)
           failed == inflight[c].failed \/ mode # "ok"
       IN /\ users' = response.users
          /\ IF response.raised
             THEN Finish(c, [Response(c, "signup", request, INTERNAL_SERVER_ERROR,
                                      HtmlBody, TRUE)
                             EXCEPT !.found = inflight[c].found])
             ELSE Finish(c, [Response(c, "signup", request, CREATED,
                                      Body("data", email, password, "absent"),
                                      failed)
                             EXCEPT !.found = inflight[c].found,
                                    !.storage = IF mode = "ok"
                                                THEN createUser(users, data).status
                                                ELSE 0])
    /\ UNCHANGED <<session, remember_token, login_as, requests_made, derived, known>>

\* ----------------------------------------------------------------- login
\* A login that keeps the logged-in user in one place for every client.
LoginSharedSession(c, request, mode) ==
    /\ CanRequest(c)
    /\ requests_made' = requests_made + 1
    /\ UNCHANGED <<users, derived, known>>
    /\ LET user == load_user_from_id(users, request.email, mode).user IN
       IF /\ consumes(request) /\ validate(request) /\ user # NoUser
          /\ check_password_hash(user.password_hash, request.password)
       THEN /\ session' = [k \in Clients |-> get_id(user)]
            /\ remember_token' = [remember_token EXCEPT
                                       ![c] = get_auth_token(user)]
            /\ login_as' = [login_as EXCEPT ![c] = LoggedIn(request.email)]
            /\ Finish(c, Response(c, "login", request, OK,
                                  Body("data", request.email, request.password,
                                       "absent"),
                                  FALSE))
       ELSE /\ Finish(c, Response(c, "login", request, NOT_FOUND, ErrorBody,
                                  FALSE))
            /\ UNCHANGED <<session, remember_token, login_as>>

\* A login that logs the client out when the password check fails.
LoginFailureLogsOut(c, request, mode) ==
    /\ CanRequest(c)
    /\ requests_made' = requests_made + 1
    /\ UNCHANGED <<users, derived, known>>
    /\ LET user == load_user_from_id(users, request.email, mode).user IN
       IF user = NoUser
       THEN /\ Finish(c, Response(c, "login", request, NOT_FOUND, ErrorBody,
                                  FALSE))
            /\ UNCHANGED <<session, remember_token, login_as>>
       ELSE IF ~check_password_hash(user.password_hash, request.password)
       THEN /\ session' = [session EXCEPT ![c] = <<>>]
            /\ remember_token' = [remember_token EXCEPT ![c] = <<>>]
            /\ login_as' = [login_as EXCEPT ![c] = NoLogin]
            /\ Finish(c, [Response(c, "login", request, UNAUTHORIZED, ErrorBody,
                                   FALSE)
                          EXCEPT !.set_cookie = "clear"])
       ELSE /\ session' = [session EXCEPT ![c] = get_id(user)]
            /\ remember_token' = [remember_token EXCEPT
                                       ![c] = get_auth_token(user)]
            /\ login_as' = [login_as EXCEPT ![c] = LoggedIn(request.email)]
            /\ Finish(c, [Response(c, "login", request, OK,
                                   Body("data", request.email, request.password,
                                        "absent"),
                                   FALSE)
                          EXCEPT !.set_cookie = "set",
                                 !.token = get_auth_token(user)])

\* POST /login: 415, 400, then the lookup (500, 404), the password check
\* (401) and login_user with remember=True (200 and the cookie).
login(c, request, mode) ==
    /\ CanRequest(c)
    /\ requests_made' = requests_made + 1
    /\ UNCHANGED <<users, derived>>
    /\ IF ~consumes(request)
       THEN /\ Finish(c, Response(c, "login", request, UNSUPPORTED_MEDIA_TYPE,
                                  HtmlBody, FALSE))
            /\ UNCHANGED <<session, remember_token, login_as, known>>
       ELSE IF ~validate(request)
       THEN /\ Finish(c, Response(c, "login", request, BAD_REQUEST, ErrorBody, FALSE))
            /\ UNCHANGED <<session, remember_token, login_as, known>>
       ELSE LET loaded == load_user_from_id(users, request.email, mode)
                user == loaded.user
            IN
            IF loaded.raised
            THEN /\ Finish(c, Response(c, "login", request, INTERNAL_SERVER_ERROR,
                                       HtmlBody, TRUE))
                 /\ UNCHANGED <<session, remember_token, login_as, known>>
            ELSE IF user = NoUser
            THEN /\ Finish(c, Response(c, "login", request, NOT_FOUND, ErrorBody,
                                       mode # "ok"))
                 /\ UNCHANGED <<session, remember_token, login_as, known>>
            ELSE IF ~check_password_hash(user.password_hash, request.password)
            THEN /\ Finish(c, Response(c, "login", request, UNAUTHORIZED, ErrorBody,
                                       mode # "ok"))
                 /\ UNCHANGED <<session, remember_token, login_as, known>>
            ELSE LET logged == login_user(user, remember_token[c]) IN
                 /\ session' = [session EXCEPT ![c] = logged.user_id]
                 /\ remember_token' = [remember_token EXCEPT
                                            ![c] = logged.remember_token]
                 /\ login_as' = [login_as EXCEPT ![c] = LoggedIn(request.email)]
                 /\ known' = [known EXCEPT ![c] =
                                  @ \cup {[email |-> request.email,
                                            password |-> request.password,
                                            token |-> get_auth_token(user)]}]
                 /\ Finish(c, [Response(c, "login", request, OK,
                                        Body("data", request.email,
                                             request.password, "absent"),
                                        mode # "ok")
                               EXCEPT !.set_cookie = logged.set_cookie,
                                      !.token = IF logged.set_cookie = "set"
                                                THEN logged.remember_token
                                                ELSE <<>>])

\* ---------------------------------------------------------------- logout
\* POST /logout: 415, then login_required (401 for the anonymous user), then
\* logout_user and 200.
logout(c, request, mode) ==
    /\ CanRequest(c)
    /\ requests_made' = requests_made + 1
    /\ UNCHANGED <<users, derived, known>>
    /\ IF ~consumes(request)
       THEN /\ Finish(c, Response(c, "logout", request, UNSUPPORTED_MEDIA_TYPE,
                                  HtmlBody, FALSE))
            /\ UNCHANGED <<session, remember_token, login_as>>
       ELSE LET current == current_user(users, session[c], remember_token[c], mode) IN
            IF current.raised
            THEN /\ Finish(c, Response(c, "logout", request, INTERNAL_SERVER_ERROR,
                                       HtmlBody, TRUE))
                 /\ UNCHANGED <<session, remember_token, login_as>>
            ELSE IF ~is_authenticated(current.user)
            THEN /\ Finish(c, Response(c, "logout", request, UNAUTHORIZED, HtmlBody,
                                       mode # "ok"))
                 /\ session' = [session EXCEPT ![c] = current.user_id]
                 /\ UNCHANGED <<remember_token, login_as>>
            ELSE LET logged == logout_user(current.user_id, remember_token[c]) IN
                 /\ session' = [session EXCEPT ![c] = logged.user_id]
                 /\ remember_token' = [remember_token EXCEPT
                                            ![c] = logged.remember_token]
                 /\ login_as' = [login_as EXCEPT ![c] = NoLogin]
                 /\ Finish(c, [Response(c, "logout", request, OK,
                                        Body("data", <<>>, <<>>, "absent"),
                                        mode # "ok")
                               EXCEPT !.set_cookie = logged.set_cookie])

\* ---------------------------------------------------------------- status
\* GET /status: 415, then current_user.is_authenticated decides the body.
status(c, request, mode) ==
    /\ CanRequest(c)
    /\ requests_made' = requests_made + 1
    /\ UNCHANGED <<users, remember_token, login_as, derived, known>>
    /\ IF ~consumes(request)
       THEN /\ Finish(c, Response(c, "status", request, UNSUPPORTED_MEDIA_TYPE,
                                  HtmlBody, FALSE))
            /\ UNCHANGED session
       ELSE LET current == current_user(users, session[c], remember_token[c], mode) IN
            IF current.raised
            THEN /\ Finish(c, Response(c, "status", request, INTERNAL_SERVER_ERROR,
                                       HtmlBody, TRUE))
                 /\ UNCHANGED session
            ELSE /\ session' = [session EXCEPT ![c] = current.user_id]
                 /\ IF is_authenticated(current.user)
                    THEN Finish(c, Response(c, "status", request, OK,
                                            Body("data", current.user.email, <<>>,
                                                 "true"),
                                            mode # "ok"))
                    ELSE Finish(c, Response(c, "status", request, OK,
                                            Body("data", <<>>, <<>>, "false"),
                                            mode # "ok"))

\* ----------------------------------------------------------- delete user
\* A delete-user that answers 401 unless the caller is logged in as the user.
DeleteOwnAccount(c, request, mode) ==
    /\ CanRequest(c)
    /\ requests_made' = requests_made + 1
    /\ UNCHANGED <<users, session, remember_token, login_as, derived, known>>
    /\ IF ~consumes(request)
       THEN Finish(c, Response(c, "delete", request, UNSUPPORTED_MEDIA_TYPE,
                               HtmlBody, FALSE))
       ELSE IF StateOf(c) # request.email
       THEN Finish(c, Response(c, "delete", request, UNAUTHORIZED, HtmlBody,
                               FALSE))
       ELSE /\ inflight' = [inflight EXCEPT ![c] =
                               [pc |-> "delete_delete", email |-> request.email,
                                password |-> <<>>, found |-> TRUE,
                                failed |-> mode # "ok"]]
            /\ last' = NoResponse
            /\ UNCHANGED logged_out

\* DELETE /users/<email> up to the storage lookup: 415, 500, 404, or on to
\* the delete call.
specific_user_route(c, request, mode) ==
    /\ CanRequest(c)
    /\ requests_made' = requests_made + 1
    /\ UNCHANGED <<users, session, remember_token, login_as, derived, known>>
    /\ IF ~consumes(request)
       THEN Finish(c, Response(c, "delete", request, UNSUPPORTED_MEDIA_TYPE,
                               HtmlBody, FALSE))
       ELSE LET loaded == load_user_from_id(users, request.email, mode) IN
            IF loaded.raised
            THEN Finish(c, Response(c, "delete", request, INTERNAL_SERVER_ERROR,
                                    HtmlBody, TRUE))
            ELSE IF loaded.user = NoUser
            THEN Finish(c, Response(c, "delete", request, NOT_FOUND, ErrorBody,
                                    mode # "ok"))
            ELSE /\ inflight' = [inflight EXCEPT ![c] =
                                    [pc |-> "delete_delete",
                                     email |-> loaded.user.email,
                                     password |-> <<>>,
                                     found |-> HasUser(users, request.email),
                                     failed |-> mode # "ok"]]
                 /\ last' = NoResponse
                 /\ UNCHANGED logged_out

\* DELETE /users/<email> from the delete call on: 200 with the email of the
\* user that was looked up, whatever storage said.
specific_user_delete(c, mode) ==
    /\ inflight[c].pc = "delete_delete"
    /\ LET email == inflight[c].email
           request == Request("application/json", email, <<>>)
           response == requests_delete(users, email, mode)
           failed == inflight[c].failed \/ mode # "ok"
       IN /\ users' = response.users
          /\ IF response.raised
             THEN Finish(c, [Response(c, "delete", request, INTERNAL_SERVER_ERROR,
                                      HtmlBody, TRUE)
                             EXCEPT !.found = inflight[c].found])
             ELSE Finish(c, [Response(c, "delete", request, OK,
                                      Body("data", email, <<>>, "absent"), failed)
                             EXCEPT !.found = inflight[c].found,
                                    !.storage = IF mode = "ok"
                                                THEN deleteUser(users, email).status
                                                ELSE 0])
    /\ login_as' = [k \in Clients |->
                        IF login_as[k].email = inflight[c].email /\ users' # users
                        THEN [login_as[k] EXCEPT !.intact = FALSE]
                        ELSE login_as[k]]
    /\ UNCHANGED <<session, remember_token, requests_made, derived, known>>

\* ------------------------------------------- a storage call without answer
\* requests.get, requests.post and requests.delete are called without a
\* timeout: a call the storage service accepts and never answers does not
\* return, and the handler waits in it.

\* Whether the handler of op makes a storage call before it answers: the
\* lookup of signup, login and delete-user, and for logout and status the
\* user loader or token loader when the request carries a cookie.
CallsStorage(c, op, request) ==
    /\ consumes(request)
    /\ CASE op \in {"signup", "login"} -> validate(request)
         [] op = "delete" -> TRUE
         [] OTHER -> session[c] # <<>> \/ remember_token[c] # <<>>

Waiting == [Idle EXCEPT !.pc = "waiting", !.failed = TRUE]

\* A request whose first storage call is never answered.
lookup_never_answered(c, op, request) ==
    /\ CanRequest(c)
    /\ CallsStorage(c, op, request)
    /\ requests_made' = requests_made + 1
    /\ inflight' = [inflight EXCEPT ![c] = Waiting]
    /\ last' = NoResponse
    /\ UNCHANGED <<users, session, remember_token, login_as, logged_out,
                   derived, known>>

\* A signup or delete-user whose second storage call is never answered.
write_never_answered(c) ==
    /\ inflight[c].pc \in {"signup_post", "delete_delete"}
    /\ inflight' = [inflight EXCEPT ![c] = Waiting]
    /\ last' = NoResponse
    /\ UNCHANGED <<users, session, remember_token, login_as, logged_out,
                   requests_made, derived, known>>

\* ------------------------------------------------- the session cookie
\* The client's browser session ends: the Flask session cookie, which has no
\* expiry, is gone, and the remember_token cookie, which login_user set with
\* remember=True, is kept.
session_ends(c) ==
    /\ inflight[c].pc = "idle"
    /\ session[c] # <<>>
    /\ session' = [session EXCEPT ![c] = <<>>]
    /\ last' = NoResponse
    /\ UNCHANGED <<users, remember_token, inflight, login_as, logged_out,
                   requests_made, derived, known>>

\* The client sends, with its next requests, a remember_token that a login
\* of its own was answered with, and no session cookie: the token loader is
\* handed whatever the request's cookie holds.
presents_token(c, auth_token) ==
    /\ inflight[c].pc = "idle"
    /\ session[c] = <<>>
    /\ remember_token[c] # auth_token
    /\ auth_token \in {k.token : k \in known[c]}
    /\ remember_token' = [remember_token EXCEPT ![c] = auth_token]
    /\ last' = NoResponse
    /\ UNCHANGED <<users, session, inflight, login_as, logged_out,
                   requests_made, derived, known>>

\* ------------------------------------------------------------- requests
\* Well-formed requests: JSON, with both fields where a body is required.
UserRequests == {Request("application/json", e, p) : e \in Emails, p \in Passwords}

\* Requests without a body.
BareRequests == {Request("application/json", <<>>, <<>>)}

\* DELETE /users/<email>: the email is in the path.
PathRequests == {Request("application/json", e, <<>>) : e \in Emails}

\* Requests the decorators turn away: a body without one of the required
\* fields, and a well-formed request sent with another content type.
AnEmail == CHOOSE e \in Emails : TRUE
APassword == CHOOSE p \in Passwords : TRUE

BadUserRequests ==
    {Request("application/json", <<>>, APassword),
     Request("application/json", AnEmail, <<>>),
     Request("text/html", AnEmail, APassword)}

BadBareRequests == {Request("text/html", <<>>, <<>>)}

BadPathRequests == {Request("text/html", AnEmail, <<>>)}

Step(modes, bodies, bare, paths) ==
    \/ \E c \in Clients, r \in bodies, m \in modes : signup(c, r, m)
    \/ \E c \in Clients, s \in Salts, m \in modes : signup_post(c, s, m)
    \/ \E c \in Clients, r \in bodies, m \in modes : login(c, r, m)
    \/ \E c \in Clients, r \in bare, m \in modes : logout(c, r, m)
    \/ \E c \in Clients, r \in bare, m \in modes : status(c, r, m)
    \/ \E c \in Clients, r \in paths, m \in modes : specific_user_route(c, r, m)
    \/ \E c \in Clients, m \in modes : specific_user_delete(c, m)

\* Well-formed requests in front of a storage service that answers every call.
Next == Step(Reliable, UserRequests, BareRequests, PathRequests)

Spec == Init /\ [][Next]_vars

\* Well-formed requests in front of a storage service that may fail any call,
\* for the first MaxUnreliableRequests requests.
UnreliableNow ==
    IF requests_made < MaxUnreliableRequests THEN Unreliable ELSE {}

NextUnreliable ==
    \/ \E c \in Clients, r \in UserRequests, m \in UnreliableNow : signup(c, r, m)
    \/ \E c \in Clients, s \in Salts, m \in Unreliable : signup_post(c, s, m)
    \/ \E c \in Clients, r \in UserRequests, m \in UnreliableNow : login(c, r, m)
    \/ \E c \in Clients, r \in BareRequests, m \in UnreliableNow : logout(c, r, m)
    \/ \E c \in Clients, r \in BareRequests, m \in UnreliableNow : status(c, r, m)
    \/ \E c \in Clients, r \in PathRequests, m \in UnreliableNow :
            specific_user_route(c, r, m)
    \/ \E c \in Clients, m \in Unreliable : specific_user_delete(c, m)

SpecUnreliable == Init /\ [][NextUnreliable]_vars

\* Any request, well-formed or turned away by a decorator, in front of a
\* storage service that may fail any call, for the first MaxAnyRequests
\* requests.
AnyNow == IF requests_made < MaxAnyRequests THEN Unreliable ELSE {}

AnyUserRequests == UserRequests \cup BadUserRequests
AnyBareRequests == BareRequests \cup BadBareRequests
AnyPathRequests == PathRequests \cup BadPathRequests

NextAnyRequest ==
    \/ \E c \in Clients, r \in AnyUserRequests, m \in AnyNow : signup(c, r, m)
    \/ \E c \in Clients, s \in Salts, m \in Unreliable : signup_post(c, s, m)
    \/ \E c \in Clients, r \in AnyUserRequests, m \in AnyNow : login(c, r, m)
    \/ \E c \in Clients, r \in AnyBareRequests, m \in AnyNow : logout(c, r, m)
    \/ \E c \in Clients, r \in AnyBareRequests, m \in AnyNow : status(c, r, m)
    \/ \E c \in Clients, r \in AnyPathRequests, m \in AnyNow :
            specific_user_route(c, r, m)
    \/ \E c \in Clients, m \in Unreliable : specific_user_delete(c, m)

SpecAnyRequest == Init /\ [][NextAnyRequest]_vars

\* Well-formed requests in front of a storage service that answers every
\* call, from clients whose browser sessions may end.  The users share one
\* password; their hashes differ by the salt.
RememberRequests == {Request("application/json", e, APassword) : e \in Emails}

NextRemember ==
    \/ \E c \in Clients, r \in RememberRequests : signup(c, r, "ok")
    \/ \E c \in Clients, s \in Salts : signup_post(c, s, "ok")
    \/ \E c \in Clients, r \in RememberRequests : login(c, r, "ok")
    \/ \E c \in Clients, r \in BareRequests : logout(c, r, "ok")
    \/ \E c \in Clients, r \in BareRequests : status(c, r, "ok")
    \/ \E c \in Clients, r \in PathRequests : specific_user_route(c, r, "ok")
    \/ \E c \in Clients : specific_user_delete(c, "ok")
    \/ \E c \in Clients : session_ends(c)

SpecRemember == Init /\ [][NextRemember]_vars

\* Well-formed requests in front of a storage service that answers every
\* call, from clients that keep the tokens their logins were answered with
\* and send them again.
NextReplay ==
    \/ \E c \in Clients, r \in RememberRequests : signup(c, r, "ok")
    \/ \E c \in Clients, s \in Salts : signup_post(c, s, "ok")
    \/ \E c \in Clients, r \in RememberRequests : login(c, r, "ok")
    \/ \E c \in Clients, r \in BareRequests : logout(c, r, "ok")
    \/ \E c \in Clients, r \in BareRequests : status(c, r, "ok")
    \/ \E c \in Clients, r \in PathRequests : specific_user_route(c, r, "ok")
    \/ \E c \in Clients : specific_user_delete(c, "ok")
    \/ \E c \in Clients : \E k \in known[c] : presents_token(c, k.token)

SpecReplay == Init /\ [][NextReplay]_vars

\* Well-formed requests in front of a storage service that answers a call
\* or leaves it without answer.
NextSilent ==
    \/ \E c \in Clients, r \in UserRequests : signup(c, r, "ok")
    \/ \E c \in Clients, s \in Salts : signup_post(c, s, "ok")
    \/ \E c \in Clients, r \in UserRequests : login(c, r, "ok")
    \/ \E c \in Clients, r \in BareRequests : logout(c, r, "ok")
    \/ \E c \in Clients, r \in BareRequests : status(c, r, "ok")
    \/ \E c \in Clients, r \in PathRequests : specific_user_route(c, r, "ok")
    \/ \E c \in Clients : specific_user_delete(c, "ok")
    \/ \E c \in Clients, r \in UserRequests, op \in {"signup", "login"} :
            lookup_never_answered(c, op, r)
    \/ \E c \in Clients, r \in BareRequests, op \in {"logout", "status"} :
            lookup_never_answered(c, op, r)
    \/ \E c \in Clients, r \in PathRequests :
            lookup_never_answered(c, "delete", r)
    \/ \E c \in Clients : write_never_answered(c)

SpecSilent == Init /\ [][NextSilent]_vars

\* ------------------------------------------- get_auth_token on its own
\* User(email, password_hash).get_auth_token() for any two strings, as the
\* unit tests call it; the NUL character is one of the characters.  derived
\* keeps the latest call and the one before it.
TokenChars == {"a", "\\0"}
TokenStrings == UNION {[1..n -> TokenChars] : n \in 1..MaxTokenLen}

derive_token(email, password_hash) ==
    /\ derived' = <<[email |-> email, password_hash |-> password_hash,
                     token |-> get_auth_token(User(email, password_hash))]>>
                   \o (IF derived = <<>> THEN <<>> ELSE <<derived[1]>>)
    /\ UNCHANGED <<users, session, remember_token, inflight, last, login_as,
                   logged_out, requests_made, known>>

NextTokens == \E e \in TokenStrings, h \in TokenStrings : derive_token(e, h)

SpecTokens == Init /\ [][NextTokens]_vars

\* ================================================================ claims
WellFormed(response) == consumes(response.request) /\ validate(response.request)

Answered(op) == last.op = op /\ consumes(last.request)

\* deriveToken(email, passwordHash) of the specification's Token Deriver.
deriveToken(email, password_hash) == make_secure_token(<<email, password_hash>>)

C2_SignupExistingConflict ==
    (Answered("signup") /\ WellFormed(last) /\ last.found) =>
        last.status = CONFLICT

C2_Witness ==
    /\ Answered("signup") /\ last.found /\ ~last.verified
    /\ last.status = CONFLICT

\* C3: a login with the email of a stored user and a password its hash
\* verifies answers 200 from any prior session state, leaves the client's
\* session Authenticated(email) and sets the remember_token cookie to
\* deriveToken(email, stored password hash).
C3_LoginEstablishesSession ==
    (Answered("login") /\ WellFormed(last) /\ last.found /\ last.verified) =>
        LET c == last.client
            email == last.request.email
            token == deriveToken(email, UserOf(users, email).password_hash)
        IN /\ last.status = OK
           /\ session[c] = email
           /\ StateOf(c) = email
           /\ last.set_cookie = "set"
           /\ last.token = token
           /\ remember_token[c] = token

C3_Witness ==
    /\ Answered("login") /\ last.status = OK
    /\ last.pre # <<>> /\ last.pre # last.request.email
    /\ StateOf(last.client) = last.request.email

\* C4: a login for an email storage does not hold answers 404 whatever the
\* password, and a login for a stored user with a password its hash does not
\* verify answers 401.
C4_LoginFailures ==
    (Answered("login") /\ WellFormed(last)) =>
        /\ ~last.found => last.status = NOT_FOUND
        /\ (last.found /\ ~last.verified) => last.status = UNAUTHORIZED

C4_Witness ==
    /\ Answered("login") /\ last.found /\ ~last.verified
    /\ last.status = UNAUTHORIZED

\* C5: logout from an Anonymous session answers 401 and leaves it Anonymous;
\* logout from an Authenticated session answers 200 and leaves it Anonymous;
\* a logout right after a successful logout answers 401.
C5_LogoutStrict ==
    Answered("logout") =>
        /\ StateOf(last.client) = <<>>
        /\ last.pre = <<>> => last.status = UNAUTHORIZED
        /\ last.pre # <<>> => last.status = OK
        /\ last.after_logout => last.status = UNAUTHORIZED

C5_Witness ==
    /\ Answered("logout") /\ last.after_logout
    /\ last.status = UNAUTHORIZED

\* C6 as stated: status answers {is_authenticated: false} without an email
\* before any login and after a successful logout, and {is_authenticated:
\* true, email: e} after a successful login as e not followed by a logout.
C6_StatusFollowsLoginHistory ==
    Answered("status") =>
        LET e == login_as[last.client].email IN
        /\ e = <<>> => last.body = Body("data", <<>>, <<>>, "false")
        /\ e # <<>> => last.body = Body("data", e, <<>>, "true")

\* C6 as amended: status answers 200 with {is_authenticated: false} and no
\* email before any login and after a successful logout; with
\* {is_authenticated: true, email: e} after a successful login as e not
\* followed by a logout as long as user e has not been deleted since that
\* login; and with {is_authenticated: false} while storage holds no user e.
C6_StatusFollowsLoginAndStorage ==
    Answered("status") =>
        LET history == login_as[last.client]
            e == history.email
        IN
        /\ last.status = OK
        /\ e = <<>> => last.body = Body("data", <<>>, <<>>, "false")
        /\ (e # <<>> /\ history.intact) => last.body = Body("data", e, <<>>, "true")
        /\ (e # <<>> /\ ~HasUser(users, e)) =>
                last.body = Body("data", <<>>, <<>>, "false")

C6_Witness ==
    /\ Answered("status")
    /\ login_as[last.client].email # <<>>
    /\ login_as[last.client].intact
    /\ last.body.is_authenticated = "true"

\* C7: delete-user for an email storage holds at the lookup answers 200 with
\* {email} and getUserByEmail(email) right after it reports not-found;
\* delete-user for an email storage does not hold answers 404 and leaves
\* storage unchanged.
C7_DeleteUser ==
    Answered("delete") =>
        /\ last.found =>
              /\ last.status = OK
              /\ last.body = Body("data", last.request.email, <<>>, "absent")
              /\ getUserByEmail(users, last.request.email).status = NOT_FOUND
        /\ ~last.found => (last.status = NOT_FOUND /\ ~last.changed)

C7_Witness ==
    /\ Answered("delete") /\ last.found
    /\ last.status = OK /\ last.changed

\* C8: a signup whose createUser call storage rejects with Conflict answers
\* 409 Conflict, so that of two racing signups for one email at most one
\* answers 201.
C8_StorageConflictAuthoritative ==
    (Answered("signup") /\ last.storage = CONFLICT) => last.status = CONFLICT

\* C9: every client session resolves to Anonymous or to the email of a user
\* storage holds, and status reports is_authenticated only with the email of
\* a user storage holds.
C9_SessionBoundToExistingUser ==
    /\ \A c \in Clients :
          LET current == current_user(users, session[c], remember_token[c], "ok") IN
          is_authenticated(current.user) =>
              /\ HasUser(users, current.user.email)
              /\ current.user.email = StateOf(c)
    /\ (Answered("status") /\ last.body.is_authenticated = "true") =>
          /\ HasUser(users, last.body.email)
          /\ last.body.email = StateOf(last.client)

C9_Witness ==
    /\ Answered("status")
    /\ session[last.client] # <<>>
    /\ ~HasUser(users, session[last.client])
    /\ last.body.is_authenticated = "false"

\* C10: a signup, login or delete-user during which a storage call failed
\* answers with a 5xx service error.
C10_StorageFailureIsServiceError ==
    (last.op \in {"signup", "login", "delete"} /\ last.failed) =>
        last.status >= INTERNAL_SERVER_ERROR

C12_ValidationFirst ==
    [][(/\ last'.op \in {"signup", "login"}
        /\ last'.request.ctype = "application/json"
        /\ (last'.request.email = <<>> \/ last'.request.password = <<>>)) =>
          /\ last'.status = BAD_REQUEST
          /\ last'.body = ErrorBody
          /\ ~last'.failed
          /\ UNCHANGED <<users, session, remember_token>>]_vars

C12_Witness ==
    /\ last.op = "login" /\ last.request.ctype = "application/json"
    /\ last.request.password = <<>>
    /\ last.status = BAD_REQUEST
    /\ last.pre # <<>> /\ StateOf(last.client) = last.pre

\* C13: every failure response of every endpoint carries the JSON error body
\* with title and detail.
C13_FailuresCarryErrorBody ==
    (last.op # "none" /\ last.status >= BAD_REQUEST) => last.body = ErrorBody

\* C14: two get_auth_token calls for the same email and password hash give
\* the same token, and two calls for the same email and different password
\* hashes give different tokens.
C14_TokenDeterministic ==
    \A i, j \in 1..Len(derived) :
        derived[i].email = derived[j].email =>
            (derived[i].token = derived[j].token
                <=> derived[i].password_hash = derived[j].password_hash)

C14_Witness ==
    /\ Len(derived) = 2
    /\ derived[1].email = derived[2].email
    /\ derived[1].password_hash # derived[2].password_hash
    /\ derived[1].token # derived[2].token

\* The password hashes signup can store.
Hashes == {hashpw(p, s) : p \in Passwords, s \in Salts}

\* The record stored for email e no longer carries hash h.
Revoked(e, h) == ~HasUser(users, e) \/ UserOf(users, e).password_hash # h

\* C15: a status or logout request that carries no session identity and the
\* remember_token issued at a login for (e, h), while storage holds no user
\* e or holds e with another password hash, resolves to no user: the session
\* stays without identity, status answers {is_authenticated: false} and
\* logout answers 401.
C15_RevokedTokenResolvesToNoUser ==
    [][\A c \in Clients, e \in Emails, h \in Hashes :
          (/\ session[c] = <<>>
           /\ remember_token[c] = deriveToken(e, h)
           /\ Revoked(e, h)
           /\ last'.client = c
           /\ last'.op \in {"status", "logout"}) =>
              /\ session'[c] = <<>>
              /\ last'.op = "status" =>
                    last'.body = Body("data", <<>>, <<>>, "false")
              /\ last'.op = "logout" => last'.status = UNAUTHORIZED]_vars

C15_Witness ==
    /\ last.op = "status"
    /\ session[last.client] = <<>>
    /\ last.body = Body("data", <<>>, <<>>, "false")
    /\ \E e \in Emails, h \in Hashes :
          /\ remember_token[last.client] = deriveToken(e, h)
          /\ HasUser(users, e)
          /\ UserOf(users, e).password_hash # h

\* C16: storage never holds two users with one email, however signups and
\* delete-users of the clients interleave.
C16_OneUserPerEmail ==
    \A i, j \in 1..Len(users) : users[i].email = users[j].email => i = j

C16_Witness ==
    /\ last.op = "signup" /\ ~last.found /\ last.storage = CONFLICT
    /\ Cardinality({i \in 1..Len(users) : users[i].email = last.request.email}) = 1

\* C17: a status request with Content-Type application/json is answered
\* 200, whatever the session and whatever the storage service's condition.
C17_StatusNeverFails ==
    (last.op = "status" /\ last.request.ctype = "application/json") =>
        last.status = OK

\* C18: delete-user for an email storage holds at the lookup is answered 200
\* and leaves no user of that email, whether the caller is Anonymous,
\* Authenticated as that user or Authenticated as another user.
C18_DeleteNeedsNoSession ==
    \A pre \in Emails \cup {<<>>} :
        (last.op = "delete" /\ last.found /\ last.pre = pre) =>
            /\ last.status = OK
            /\ ~HasUser(users, last.request.email)

C18_Witness ==
    /\ last.op = "delete" /\ last.found /\ last.changed
    /\ last.pre # <<>> /\ last.pre # last.request.email
    /\ last.status = OK
    /\ ~HasUser(users, last.request.email)

NulFree(string) == \A k \in 1..Len(string) : string[k] # "\\0"

C20_PasswordImmutable ==
    [][\A e \in Emails :
          (HasUser(users, e) /\ HasUser(users', e)) =>
              UserOf(users', e).password_hash = UserOf(users, e).password_hash]_vars

C20_Witness ==
    /\ last.op = "signup" /\ last.storage = CONFLICT
    /\ HasUser(users, last.request.email)
    /\ ~Verifies(last.request.password,
                 UserOf(users, last.request.email).password_hash)

\* C21: a step of one client leaves the cookies of every other client as
\* they were; a login or logout leaves storage as it was; and a step that
\* leaves storage as it was leaves the session state every other client
\* resolves to as it was.
C21_SessionsIndependent ==
    [][\A k \in Clients :
          last'.client # k =>
              /\ session'[k] = session[k]
              /\ remember_token'[k] = remember_token[k]
              /\ last'.op \in {"login", "logout"} => users' = users
              /\ users' = users =>
                    SessionState(users', session'[k], remember_token'[k])
                        = StateOf(k)]_vars

C21_Witness ==
    /\ last.op = "logout" /\ last.status = OK
    /\ \E k \in Clients :
          /\ k # last.client
          /\ StateOf(k) # <<>>
          /\ StateOf(k) = last.pre

\* A step in which the handler of client c's request goes on or answers.
Proceeds(c) ==
    \/ \E s \in Salts, m \in Unreliable : signup_post(c, s, m)
    \/ \E m \in Unreliable : specific_user_delete(c, m)

\* C22: no request waits for ever: whenever a request of a client is in
\* flight, a step of its handler is possible, a storage call that is not
\* answered ending as a failure after a bounded wait.
C22_NoRequestBlocks ==
    \A c \in Clients : inflight[c].pc # "idle" => ENABLED Proceeds(c)

\* C23: a session that carries identity e resolves to the user e exactly
\* when getUserByEmail(e) finds a user, and to no user otherwise, whatever
\* password hash e had when the session was established; a status request
\* that carries identity e answers accordingly.
C23_SessionIdentityFollowsStorage ==
    /\ \A c \in Clients :
          session[c] # <<>> =>
              LET current == current_user(users, session[c], remember_token[c],
                                          "ok")
              IN IF getUserByEmail(users, session[c]).status = OK
                 THEN /\ is_authenticated(current.user)
                      /\ current.user.email = session[c]
                 ELSE ~is_authenticated(current.user)
    /\ (last.op = "status" /\ last.status = OK /\ last.user_id # <<>>) =>
          last.body = IF getUserByEmail(users, last.user_id).status = OK
                      THEN Body("data", last.user_id, <<>>, "true")
                      ELSE Body("data", <<>>, <<>>, "false")

C23_Witness ==
    /\ last.op = "status" /\ last.user_id # <<>>
    /\ last.body = Body("data", last.user_id, <<>>, "true")
    /\ last.cookie # deriveToken(last.user_id,
                                 UserOf(users, last.user_id).password_hash)

\* The indices of the stored users whose token is the given one.
Matching(auth_token) ==
    {i \in 1..Len(users) :
        deriveToken(users[i].email, users[i].password_hash) = auth_token}

\* C24: token resolution returns the user of the least index of listUsers
\* whose deriveToken is the presented token, and no user when none matches;
\* resolving the own token of every stored user returns that user; a status
\* request that carries a token and no session identity answers accordingly.
C24_TokenResolutionScansInOrder ==
    /\ \A auth_token \in {remember_token[c] : c \in Clients}
                          \cup {deriveToken(e, h) : e \in Emails, h \in Hashes} :
          LET resolved == load_user_from_token(users, auth_token, "ok").user IN
          IF Matching(auth_token) = {}
          THEN resolved = NoUser
          ELSE \E i \in Matching(auth_token) :
                  /\ \A j \in Matching(auth_token) : i <= j
                  /\ resolved = User(users[i].email, users[i].password_hash)
    /\ \A i \in 1..Len(users) :
          load_user_from_token(
              users, deriveToken(users[i].email, users[i].password_hash),
              "ok").user = User(users[i].email, users[i].password_hash)
    /\ (/\ last.op = "status" /\ last.status = OK
        /\ last.user_id = <<>> /\ last.cookie # <<>>) =>
          IF Matching(last.cookie) = {}
          THEN last.body = Body("data", <<>>, <<>>, "false")
          ELSE \E i \in Matching(last.cookie) :
                  last.body = Body("data", users[i].email, <<>>, "true")

C24_Witness ==
    /\ last.op = "status" /\ last.user_id = <<>> /\ last.cookie # <<>>
    /\ Len(users) >= 2
    /\ Matching(last.cookie) # {} /\ 1 \notin Matching(last.cookie)
    /\ last.body.is_authenticated = "true"

\* C27: a login answered 404 or 401 leaves every client's session identity
\* and remember_token and the storage unchanged and sets no cookie, so the
\* client resolves to the session state it had before the request.
C27_FailedLoginChangesNothing ==
    [][(last'.op = "login" /\ last'.status \in {NOT_FOUND, UNAUTHORIZED}) =>
          /\ users' = users
          /\ session' = session
          /\ remember_token' = remember_token
          /\ last'.set_cookie = "none"
          /\ SessionState(users', session'[last'.client],
                          remember_token'[last'.client]) = last'.pre]_vars

C27_Witness ==
    /\ last.op = "login" /\ last.status = UNAUTHORIZED
    /\ last.pre # <<>> /\ last.pre # last.request.email
    /\ StateOf(last.client) = last.pre

\* C28: a delete-user is answered 200 only if its own storage delete removed
\* the user: storage answered 200 to the delete call and the step took the
\* user out of storage.
C28_DeleteOkOnlyIfRemoved ==
    (last.op = "delete" /\ last.status = OK) =>
        last.storage = OK /\ last.changed

\* C25: a client's session resolves to Authenticated(e) only if the client
\* completed a login as e with a password that verifies against the password
\* hash now stored for e, or holds the remember_token of e and that hash.
C25_AuthenticatedKnowsCurrentCredentials ==
    \A c \in Clients :
        StateOf(c) # <<>> =>
            LET e == StateOf(c)
                h == UserOf(users, e).password_hash
            IN \/ \E k \in known[c] : k.email = e /\ Verifies(k.password, h)
               \/ remember_token[c] = deriveToken(e, h)

\* C29: a signup answered 201 or 409 sets no cookie and leaves the client
\* resolving to the session state it had before.
C29_SignupKeepsSessionState ==
    [][(last'.op = "signup" /\ last'.status \in {CREATED, CONFLICT}) =>
          /\ last'.set_cookie = "none"
          /\ SessionState(users', session'[last'.client],
                          remember_token'[last'.client]) = last'.pre]_vars

\* C26: a status request that carries no session identity and the token of
\* (e, h), while storage holds e with password hash h, is answered
\* {is_authenticated: true, email: e} and gives the session the identity e,
\* whatever logins and logouts came before, a successful logout that
\* cleared this very token included.
C26_LogoutDoesNotRevokeToken ==
    [][\A c \in Clients, e \in Emails, h \in Hashes :
          (/\ session[c] = <<>>
           /\ remember_token[c] = deriveToken(e, h)
           /\ HasUser(users, e)
           /\ UserOf(users, e).password_hash = h
           /\ last'.client = c
           /\ last'.op = "status") =>
              /\ last'.body = Body("data", e, <<>>, "true")
              /\ session'[c] = e]_vars

C26_Witness ==
    /\ last.op = "status" /\ last.after_logout
    /\ last.user_id = <<>>
    /\ last.cookie \in {k.token : k \in known[last.client]}
    /\ last.body.is_authenticated = "true"
    /\ StateOf(last.client) = last.body.email

====
